---- MODULE Spec2Model ----
(***************************************************************************)
(* Model of the compose execution module (src/_modules/compose.py) and the *)
(* compose state module (src/_states/compose.py) of salt-podman-formula.   *)
(*                                                                         *)
(* One project ("proj") owned by one user is modelled.  The external       *)
(* programs (podman, podman-compose, systemd) are modelled by their        *)
(* effect on the world: the containers that exist, the unit files in the   *)
(* service directory and the units systemd reports active.                 *)
(*                                                                         *)
(* Python exceptions are modelled as the field exc of every result:        *)
(*   ""                       the call returned normally                   *)
(*   "CommandExecutionError"  \  caught by the state functions             *)
(*   "SaltInvocationError"    /                                            *)
(*   "crash"                  any other exception (UnboundLocalError,      *)
(*                            KeyError, TypeError, ...): not caught        *)
(***************************************************************************)
EXTENDS Integers, Sequences, FiniteSets, TLC

VARIABLES
    composeFile,   \* the definitions in docker-compose.yml: [rev, services]
    unitFiles,     \* unit name -> content of <service_dir>/<name>.service
    containers,    \* containers labelled io.podman.compose.project=proj
    otherPod,      \* a pod of another project exists for the same user
    active,        \* unit names "systemctl is-active" reports active
    starting,      \* container units systemd is still bringing up
    stopping,      \* container units systemd is still bringing down
    elapsed,       \* time.time() - start_time of the polling loop, in ticks
    pc,            \* "idle", or the polling loop a state function is in
    frame,         \* the locals of the state function that is polling
    last,          \* the call that has just finished and what it returned
    applied,       \* arguments of the last successful compose.installed
    cfg,           \* the arguments the SLS file passes on every call
    bus,           \* the session bus sockets /run/user/<uid>/bus that exist
    linger,        \* the accounts loginctl reports as lingering
    context,       \* __context__: context key -> cached value
    images         \* the images the local podman store knows

\* the state of the host outside the composition
host == <<bus, linger, context, images>>

\* the state of the composition
composition == <<composeFile, unitFiles, containers, otherPod, active,
                 starting, stopping, applied, cfg>>

vars == <<composeFile, unitFiles, containers, otherPod, active, starting,
          stopping, elapsed, pc, frame, last, applied, cfg, bus, linger,
          context, images>>

(***************************************************************************)
(* Bounds of the model.                                                    *)
(***************************************************************************)
MaxRev == 2        \* revisions of the compose file
MaxTimeout == 1    \* largest timeout argument, in seconds
MaxOversleep == 1  \* how many ticks a sleep or a poll may overrun

(***************************************************************************)
(* Values.                                                                 *)
(***************************************************************************)
NoneV == "None"                 \* Python's None
project == "proj"
default_container_prefix == ""  \* compose.default_container_prefix
default_pod_prefix == ""        \* compose.default_pod_prefix
NoHash == 0                     \* no io.podman.compose.config-hash label
Services == {"a", "b"}          \* service names a compose file may define
Foreign == "x"                  \* a container that is no compose service
TicksPerSecond == 4             \* one tick is one time.sleep(0.25)

Truthy(x) == x = "True"
Or(x, dflt) == IF x = NoneV \/ x = "" THEN dflt ELSE x

\* revisions alternate between defining {a, b} and {a}
ServicesOfRev(rev) == IF rev % 2 = 1 THEN {"a", "b"} ELSE {"a"}
ComposeFiles == {[rev |-> r, services |-> ServicesOfRev(r)] : r \in 1..MaxRev}

World == [cf |-> composeFile, units |-> unitFiles, cnts |-> containers,
          other |-> otherPod, active |-> active, starting |-> starting,
          stopping |-> stopping]

Merge(f, g) == [n \in (DOMAIN f) \cup (DOMAIN g) |->
                   IF n \in DOMAIN g THEN g[n] ELSE f[n]]
Restrict(f, S) == [n \in S |-> f[n]]
NoUnits == [n \in {} |-> 0]

(***************************************************************************)
(* _get_compose_hash: the sha256 of the normalised definitions.  The       *)
(* digest is modelled as an injective code of the definitions.             *)
(***************************************************************************)
_get_compose_hash(file) ==
    [hash |-> 10 * file.rev + Cardinality(file.services),
     definitions |-> file]

(***************************************************************************)
(* podman ps / podman pod ps                                               *)
(***************************************************************************)
\* containers of the project (--filter label=io.podman.compose.project=...)
ps(W) == W.cnts

\* unit names of the active container units, per service
SvcActive(W, svc) ==
    \E u \in W.active \cap DOMAIN W.units :
        W.units[u].kind = "container" /\ W.units[u].svc = svc

\* ps(status=[created, paused, stopped, exited, unknown])
ps_not_running(W) == {c \in W.cnts : ~SvcActive(W, c.svc)}

\* ps(project, pod_only=True): one line per container, empty for a
\* container outside a pod; cmd.run_all strips the output
ps_pod_only(W) == {"pod_proj" : c \in {c \in W.cnts : c.inPod}}

\* pps(project): the pod ids found are appended as id= filters; without any
\* id no filter is passed and podman lists every pod of the user
pps(W) ==
    LET pod_id == ps_pod_only(W)
    IN  IF pod_id # {} THEN <<"pod_proj">>
        ELSE IF W.other THEN <<"pod_other">> ELSE <<>>

(***************************************************************************)
(* _list_units: the expected unit names.                                   *)
(***************************************************************************)
ContainerName(srv) == project \o "_" \o srv \o "_1"

_list_units_sep(container_prefix, pod_prefix, separator) ==
    IF (container_prefix # "" \/ pod_prefix # "") /\ separator = NoneV
    THEN "-"
    ELSE ""

_list_units(W, a) ==
    LET container_prefix == Or(a.container_prefix, default_container_prefix)
        pod_prefix == Or(a.pod_prefix, default_pod_prefix)
        separator == _list_units_sep(container_prefix, pod_prefix, a.separator)
    IN  [pod |-> pod_prefix \o separator \o "pod_" \o project,
         service_names |->
            {container_prefix \o separator \o ContainerName(srv) :
                srv \in W.cf.services}]

_is_unit_installed(W, service) == service \in DOMAIN W.units

list_missing_units(W, a, should_have_pod) ==
    LET lu == _list_units(W, a)
    IN  [containers |-> {s \in lu.service_names : ~_is_unit_installed(W, s)},
         pods |-> IF ~_is_unit_installed(W, lu.pod) /\ Truthy(should_have_pod)
                  THEN {lu.pod} ELSE {}]

list_missing_units_status(W, a, should_have_pod) ==
    LET m == list_missing_units(W, a, should_have_pod)
    IN  m.containers # {} \/ m.pods # {}

list_installed_units(W, a) ==
    LET lu == _list_units(W, a)
    IN  [containers |-> {s \in lu.service_names : _is_unit_installed(W, s)},
         pods |-> IF _is_unit_installed(W, lu.pod) THEN {lu.pod} ELSE {}]

list_installed_units_status(W, a) ==
    LET m == list_installed_units(W, a)
    IN  m.containers # {} \/ m.pods # {}

(***************************************************************************)
(* podman generate systemd --name [--new] --separator --container-prefix   *)
(* --pod-prefix <id>: unit name -> unit file content.  A unit generated    *)
(* with --new holds the podman run command with the container's labels; a  *)
(* unit generated without it only starts the container by name.            *)
(***************************************************************************)
PodmanSeparator(a) ==
    LET container_prefix == Or(a.container_prefix, default_container_prefix)
        pod_prefix == Or(a.pod_prefix, default_pod_prefix)
    IN  IF container_prefix # "" \/ pod_prefix # ""
        THEN (IF a.separator # NoneV THEN a.separator ELSE "-")
        ELSE ""

ContainerUnitName(a, name) ==
    Or(a.container_prefix, default_container_prefix)
        \o PodmanSeparator(a) \o name

PodUnitName(a, name) ==
    Or(a.pod_prefix, default_pod_prefix) \o PodmanSeparator(a) \o name

ContainerUnit(c, ephemeral) ==
    [kind |-> "container", new |-> ephemeral, svc |-> c.svc,
     hash |-> IF ephemeral THEN c.hash ELSE NoHash,
     inPod |-> ephemeral /\ c.inPod, dep |-> "BindsTo"]

PodUnit(ephemeral) ==
    [kind |-> "pod", new |-> ephemeral, svc |-> "", hash |-> NoHash,
     inPod |-> FALSE, dep |-> "Requires"]

OtherContainer == [svc |-> "web", hash |-> 99, inPod |-> TRUE]

\* the units of a pod: the pod's own and one per container in it
GeneratePod(W, a, pod, ephemeral) ==
    LET members == IF pod = "pod_proj" THEN {c \in W.cnts : c.inPod}
                   ELSE {OtherContainer}
        prj == IF pod = "pod_proj" THEN project ELSE "other"
        cname(c) == ContainerUnitName(a, prj \o "_" \o c.svc \o "_1")
        names == {cname(c) : c \in members} \cup {PodUnitName(a, pod)}
    IN  [n \in names |->
            IF n = PodUnitName(a, pod) THEN PodUnit(ephemeral)
            ELSE ContainerUnit(CHOOSE c \in members : cname(c) = n,
                               ephemeral)]

\* the units of containers outside a pod, one podman call per container
GenerateContainers(W, a, ephemeral) ==
    LET cname(c) == ContainerUnitName(a, ContainerName(c.svc))
    IN  [n \in {cname(c) : c \in W.cnts} |->
            ContainerUnit(CHOOSE c \in W.cnts : cname(c) = n, ephemeral)]

(***************************************************************************)
(* inspect_unit(srv, podman_ps_if_running=False): a container as parsed    *)
(* from its unit file.  For a unit that only starts an existing container  *)
(* it returns the list ps(name=...) instead of a container.                *)
(***************************************************************************)
inspect_unit(W, unit) ==
    LET c == W.units[unit]
    IN  IF ~c.new THEN [isList |-> TRUE, svc |-> c.svc, hash |-> NoHash]
        ELSE [isList |-> FALSE, svc |-> c.svc, hash |-> c.hash]

(***************************************************************************)
(* has_changes                                                             *)
(***************************************************************************)
\* if status_only and missing["pods"] or missing["containers"]: return True
has_changes_early(status_only, missing) ==
    (status_only /\ missing.pods # {}) \/ missing.containers # {}

\* the key a container is listed under: PODMAN_SYSTEMD_UNIT or its Id
Key(c) == c.svc

\* the loop without the skip_removed exception
has_changes_changed_as(cs, new_hash, definitions, skip_removed) ==
    {Key(c) : c \in {c \in cs : c.hash # new_hash}}

has_changes_changed(cs, new_hash, definitions, skip_removed) ==
    {Key(c) : c \in {c \in cs :
        /\ c.hash # new_hash
        /\ (~skip_removed \/ c.svc \in definitions.services)}}

BoolResult(b) ==
    [exc |-> "", type |-> "bool", b |-> b, changed |-> {},
     missing |-> [containers |-> {}, pods |-> {}]]
MapResult(changed, missing) ==
    [exc |-> "", type |-> "map", b |-> TRUE, changed |-> changed,
     missing |-> missing]
Raise(e) ==
    [exc |-> e, type |-> "exc", b |-> FALSE, changed |-> {},
     missing |-> [containers |-> {}, pods |-> {}]]

has_changes(W, a, status_only, skip_removed) ==
    LET missing == list_missing_units(W, a, NoneV)
        fromPs == {[isList |-> FALSE, svc |-> c.svc, hash |-> c.hash] :
                       c \in ps(W)}
        cs == IF fromPs # {} THEN fromPs
              ELSE {inspect_unit(W, srv) :
                        srv \in list_installed_units(W, a).containers}
        h == _get_compose_hash(W.cf)
        changed == has_changes_changed(cs, h.hash, h.definitions, skip_removed)
    IN  IF has_changes_early(status_only, missing) THEN BoolResult(TRUE)
        ELSE IF cs = {}
        THEN (IF status_only
              THEN BoolResult(missing.pods # {} \/ missing.containers # {})
              ELSE MapResult({}, missing))
        ELSE IF \E c \in cs : c.isList THEN Raise("crash")
        ELSE IF \E c \in cs : c.hash = NoHash
        THEN Raise("CommandExecutionError")
        ELSE IF status_only
        THEN BoolResult(changed # {} \/ missing.pods # {}
                            \/ missing.containers # {})
        ELSE MapResult(changed, missing)

(***************************************************************************)
(* systemd.  Starting a pod unit brings the pod unit up at once and its    *)
(* container units after a delay; stopping it brings them down after a     *)
(* delay.  A unit generated with --new creates its container when it comes *)
(* up (podman run --replace) and removes it when it goes down (--rm).      *)
(***************************************************************************)
ProjectUnits(W) ==
    {u \in DOMAIN W.units : W.units[u].svc \in Services \cup {Foreign, ""}}
ContainerUnits(W) ==
    {u \in ProjectUnits(W) : W.units[u].kind = "container"}

ContainerOfUnit(W, u) ==
    [svc |-> W.units[u].svc, hash |-> W.units[u].hash,
     inPod |-> W.units[u].inPod]

\* a container unit comes up
UnitUp(W, u) ==
    LET c == W.units[u]
        exists == \E k \in W.cnts : k.svc = c.svc
    IN  IF c.new
        THEN [W EXCEPT !.active = @ \cup {u}, !.starting = @ \ {u},
                       !.cnts = {k \in @ : k.svc # c.svc}
                                    \cup {ContainerOfUnit(W, u)}]
        ELSE IF exists
        THEN [W EXCEPT !.active = @ \cup {u}, !.starting = @ \ {u}]
        ELSE [W EXCEPT !.starting = @ \ {u}]

\* a container unit goes down
UnitDown(W, u) ==
    LET c == W.units[u]
    IN  [W EXCEPT !.active = @ \ {u}, !.stopping = @ \ {u},
                  !.starting = @ \ {u},
                  !.cnts = IF c.new /\ u \in W.active
                           THEN {k \in @ : k.svc # c.svc} ELSE @]

\* systemctl start <unit>
SysStart(W, u) ==
    IF W.units[u].kind = "pod"
    THEN [W EXCEPT !.active = @ \cup {u},
                   !.starting = ContainerUnits(W) \ W.active,
                   !.stopping = {}]
    ELSE UnitUp(W, u)

\* systemctl stop <unit>
SysStop(W, u) ==
    IF W.units[u].kind = "pod"
    THEN [W EXCEPT !.active = @ \ {u},
                   !.stopping = ContainerUnits(W) \cap W.active,
                   !.starting = {}]
    ELSE UnitDown(W, u)

\* for unit in units: systemctl_start(unit)
RECURSIVE StartAll(_, _)
StartAll(W, S) ==
    IF S = {} THEN W
    ELSE LET u == CHOOSE x \in S : TRUE
         IN  StartAll(SysStart(W, u), S \ {u})

\* for unit in units: systemctl_stop(unit)
RECURSIVE StopAll(_, _)
StopAll(W, S) ==
    IF S = {} THEN W
    ELSE LET u == CHOOSE x \in S : TRUE
         IN  StopAll(SysStop(W, u), S \ {u})

\* every unit of S has gone down
RECURSIVE DownAll(_, _)
DownAll(W, S) ==
    IF S = {} THEN W
    ELSE LET u == CHOOSE x \in S : TRUE
         IN  DownAll(UnitDown(W, u), S \ {u})

(***************************************************************************)
(* podman-compose up --no-start / podman-compose down                      *)
(***************************************************************************)
Up(W, in_pod, remove_orphans, force_recreate) ==
    LET h == _get_compose_hash(W.cf).hash
        kept == {c \in W.cnts :
                    \/ c.svc \in W.cf.services /\ c.hash = h
                            /\ ~force_recreate
                    \/ c.svc \notin W.cf.services /\ ~remove_orphans}
        made == {[svc |-> s, hash |-> h, inPod |-> in_pod] :
                    s \in {s \in W.cf.services :
                              ~\E c \in kept : c.svc = s}}
        gone == {u \in ContainerUnits(W) :
                    ~\E c \in kept : c.svc = W.units[u].svc}
    IN  [W EXCEPT !.cnts = kept \cup made, !.active = @ \ gone,
                  !.starting = @ \ gone, !.stopping = @ \ gone]

Down(W) ==
    LET kept == {c \in W.cnts : c.svc \notin W.cf.services /\ ~c.inPod}
        gone == {u \in ProjectUnits(W) :
                    ~\E c \in kept : c.svc = W.units[u].svc}
    IN  [W EXCEPT !.cnts = kept, !.active = @ \ gone,
                  !.starting = @ \ gone, !.stopping = @ \ gone]

\* podman_compose_supports_pods for a podman-compose that lets the caller
\* choose (neither 0.* nor 1.0.2/1.0.3)
podman_compose_supports_pods == [supported |-> TRUE, required |-> FALSE]

(***************************************************************************)
(* enable / start / stop / is_running / is_dead                            *)
(***************************************************************************)
UnitsOf(units) == units.pods \cup units.containers
AllUnits(W, a) == UnitsOf(list_installed_units(W, a))

\* the units start, stop and enable act on: the pod unit if it is
\* installed, else the container units
MainOf(units) == IF units.pods # {} THEN units.pods ELSE units.containers
MainUnits(W, a) == MainOf(list_installed_units(W, a))

Ok(W) == [exc |-> "", w |-> W]
Fail(e, W) == [exc |-> e, w |-> W]

enable_units_of(W, main) ==
    IF main = {} THEN Fail("CommandExecutionError", W) ELSE Ok(W)
enable(W, a) == enable_units_of(W, MainUnits(W, a))

start_units_of(W, main) ==
    IF main = {} THEN Fail("CommandExecutionError", W)
    ELSE Ok(StartAll(W, main))
start(W, a) == start_units_of(W, MainUnits(W, a))

stop_units_of(W, main) ==
    IF main = {} THEN Fail("CommandExecutionError", W)
    ELSE Ok(StopAll(W, main))
stop(W, a) == stop_units_of(W, MainUnits(W, a))

systemctl_is_running(W, unit) == unit \in W.active

is_running_of(W, all) ==
    IF all = {} THEN [exc |-> "CommandExecutionError", b |-> FALSE]
    ELSE [exc |-> "",
          b |-> {s \in all : ~systemctl_is_running(W, s)} = {}]
is_running(W, a) == is_running_of(W, AllUnits(W, a))

is_dead_of(W, all) ==
    IF all = {} THEN [exc |-> "CommandExecutionError", b |-> FALSE]
    ELSE [exc |-> "",
          b |-> {s \in all : systemctl_is_running(W, s)} = {}]
is_dead(W, a) == is_dead_of(W, AllUnits(W, a))

(***************************************************************************)
(* install_units / install / remove                                        *)
(***************************************************************************)
IUResult(e, defs, w) == [exc |-> e, defs |-> defs, w |-> w]

\* the files are written; then podman-compose down and enable
install_units_write(W1, a, o, usePod, definitions) ==
    \* ids[0] of an empty ps(project)
    IF o.remove_containers /\ usePod /\ ps(W1) = {}
    THEN IUResult("crash", definitions, W1)
    ELSE IF o.remove_containers /\ o.enable_units
    THEN IUResult(enable(Down(W1), a).exc, definitions, Down(W1))
    ELSE IF o.remove_containers
    THEN IUResult("", definitions, Down(W1))
    ELSE IF o.enable_units
    THEN IUResult(enable(W1, a).exc, definitions, W1)
    ELSE IUResult("", definitions, W1)

install_units_defs(W, a, o, definitions) ==
    IF o.generate_only THEN IUResult("", definitions, W)
    ELSE install_units_write([W EXCEPT !.units = Merge(@, definitions)],
                             a, o, TRUE, definitions)

install_units_pod(W, a, o, pod_name, gen) ==
    IF ~o.pod_wants THEN install_units_defs(W, a, o, gen)
    \* definitions[pod_name]: the key is the unit name, prefix included
    ELSE IF pod_name \notin DOMAIN gen THEN IUResult("crash", gen, W)
    ELSE install_units_defs(W, a, o, [gen EXCEPT ![pod_name].dep = "Wants"])

install_units_containers(W, a, o, definitions) ==
    IF o.generate_only THEN IUResult("", definitions, W)
    ELSE install_units_write([W EXCEPT !.units = Merge(@, definitions)],
                             a, o, FALSE, definitions)

install_units_ids(W, a, o, pod) ==
    IF pod # <<>>
    THEN install_units_pod(W, a, o, pod[1],
                           GeneratePod(W, a, pod[1], o.ephemeral))
    ELSE IF ps(W) = {} THEN IUResult("SaltInvocationError", NoUnits, W)
    ELSE install_units_containers(W, a, o,
                                  GenerateContainers(W, a, o.ephemeral))

install_units(W, a, o) == install_units_ids(W, a, o, pps(W))

install_create_pod(create_pod, pc_pod_support) ==
    IF create_pod = NoneV THEN pc_pod_support.supported
    ELSE Truthy(create_pod)

install(W, a, o) ==
    install_units(
        Up(W, install_create_pod(o.create_pod, podman_compose_supports_pods),
           o.remove_orphans, o.force_recreate),
        a,
        [ephemeral |-> o.ephemeral, pod_wants |-> o.pod_wants,
         generate_only |-> FALSE, enable_units |-> o.enable_units,
         remove_containers |-> o.ephemeral])

RmResult(e, d, w) == [exc |-> e, down |-> d, w |-> w]

\* the unit files of the installed units are deleted; a unit whose file is
\* gone is not tracked any further
remove_units(W1, units, down) ==
    RmResult("", down,
             [W1 EXCEPT !.units = Restrict(@, DOMAIN @ \ units),
                        !.active = @ \ units, !.starting = @ \ units,
                        !.stopping = @ \ units])

remove_down(W, a, down) ==
    IF down THEN remove_units(Down(W), AllUnits(Down(W), a), TRUE)
    ELSE remove_units(W, AllUnits(W, a), FALSE)

\* if is_running(...): raise CommandExecutionError
remove_guard(ir) == ir.b

remove_checked(W, a, volumes, ir) ==
    IF ir.exc # "" THEN RmResult(ir.exc, FALSE, W)
    ELSE IF remove_guard(ir) THEN RmResult("CommandExecutionError", FALSE, W)
    ELSE remove_down(W, a,
                     ps_not_running(W) # {} \/ pps(W) # <<>> \/ volumes)

remove(W, a, volumes) == remove_checked(W, a, volumes, is_running(W, a))

(***************************************************************************)
(* The state functions of src/_states/compose.py.  Each returns            *)
(*   ret    the state's return value: result ("True", "False", "None"),    *)
(*          the key of changes ("" when empty) and the comment; result     *)
(*          "crash" stands for an exception no except clause catches       *)
(*   calls  the execution-module functions it invoked that change things,  *)
(*          in order                                                       *)
(*   w      the world it leaves                                            *)
(***************************************************************************)
Ret(result, changes, comment) ==
    [result |-> result, changes |-> changes, comment |-> comment]
Out(ret, calls, w) == [ret |-> ret, calls |-> calls, w |-> w]
Entry(ret, calls, w, done) ==
    [ret |-> ret, calls |-> calls, w |-> w, done |-> done]

\* except (CommandExecutionError, SaltInvocationError) as e
Caught(exc, calls, w) ==
    IF exc = "crash" THEN Out(Ret("crash", "", exc), calls, w)
    ELSE Out(Ret("False", "", exc), calls, w)

dead_stop(st) ==
    IF st.exc # ""
    THEN Entry(Ret("False", "", st.exc), <<"stop">>, st.w, TRUE)
    ELSE Entry(Ret("True", "stopped", "has been stopped"), <<"stop">>,
               st.w, FALSE)

\* if not is_running(...): "already dead"
dead_already(ir) == ~ir.b

dead_checked(W, a, test, is_installed, ir) ==
    IF ~is_installed
    THEN Entry(Ret("True", "", "no installed units"), <<>>, W, TRUE)
    ELSE IF ir.exc # "" THEN Entry(Ret("False", "", ir.exc), <<>>, W, TRUE)
    ELSE IF dead_already(ir)
    THEN Entry(Ret("True", "", "already dead"), <<>>, W, TRUE)
    ELSE IF test
    THEN Entry(Ret("None", "stopped", "set to be stopped"), <<>>, W, TRUE)
    ELSE dead_stop(stop(W, a))

\* dead, up to the polling loop: done = FALSE when compose.stop succeeded
dead_entry(W, a, test) ==
    dead_checked(W, a, test, list_installed_units_status(W, a),
                 is_running(W, a))

dead_polled(e, W2, id) ==
    IF id.exc # ""
    THEN Out(Ret("False", e.ret.changes, id.exc), e.calls, W2)
    ELSE IF id.b THEN Out(e.ret, e.calls, W2)
    ELSE Out(Ret("False", "", "still running"), e.calls, W2)

dead_settle(e, a, W2) == dead_polled(e, W2, is_dead(W2, a))

dead_after(e, a, settles) ==
    IF e.done THEN Out(e.ret, e.calls, e.w)
    ELSE IF settles THEN dead_settle(e, a, DownAll(e.w, e.w.stopping))
    ELSE dead_settle(e, a, e.w)

\* dead as one step: settles tells whether the stopping units go down
\* before the timeout
dead(W, a, test, settles) == dead_after(dead_entry(W, a, test), a, settles)

\* compose.remove(name, volumes=volumes, ...) as the calls record it
RemoveCall(volumes) == IF volumes THEN "remove_volumes" ELSE "remove"

removed_after(rm, call, still) ==
    IF rm.exc # "" THEN Caught(rm.exc, <<call>>, rm.w)
    ELSE IF still
    THEN Out(Ret("False", "", "still installed"), <<call>>, rm.w)
    ELSE Out(Ret("True", "removed", "has been removed"), <<call>>, rm.w)

removed_remove(a, volumes, rm) ==
    removed_after(rm, RemoveCall(volumes),
                  list_installed_units_status(rm.w, a))

removed(W, a, volumes, test) ==
    IF ~list_installed_units_status(W, a)
    THEN Out(Ret("True", "", "already absent"), <<>>, W)
    ELSE IF test
    THEN Out(Ret("None", "removed", "set to be removed"), <<>>, W)
    ELSE removed_remove(a, volumes, remove(W, a, volumes))

running_start(st) ==
    IF st.exc # ""
    THEN Entry(Ret("False", "", st.exc), <<"start">>, st.w, TRUE)
    ELSE Entry(Ret("True", "started", "has been started"), <<"start">>,
               st.w, FALSE)

running_checked(W, a, test, ir) ==
    IF ir.exc # "" THEN Entry(Ret("False", "", ir.exc), <<>>, W, TRUE)
    ELSE IF ir.b THEN Entry(Ret("True", "", "already running"), <<>>, W, TRUE)
    ELSE IF test
    THEN Entry(Ret("None", "started", "set to be started"), <<>>, W, TRUE)
    ELSE running_start(start(W, a))

\* running, up to the polling loop
running_entry(W, a, test) == running_checked(W, a, test, is_running(W, a))

\* the unit files differ from what podman generates now
UnitsChanged(W, wanted) ==
    \E n \in DOMAIN wanted :
        n \notin DOMAIN W.units \/ W.units[n] # wanted[n]

Word(is_installed) == IF is_installed THEN "updated" ELSE "installed"

\* the result of the state once compose.install or compose.install_units
\* has returned
installed_done(step, call, before, changes, missing, comment) ==
    IF step.exc # "" THEN Caught(step.exc, before \o <<call>>, step.w)
    ELSE IF missing
    THEN Out(Ret("False", changes, "still missing"), before \o <<call>>,
             step.w)
    ELSE Out(Ret("True", changes, comment), before \o <<call>>, step.w)

installed_step(a, o, step, call, before, changes, comment) ==
    installed_done(step, call, before, changes,
                   list_missing_units_status(step.w, a, o.create_pod),
                   comment)

\* if units_changed and not has_changes: compose.install_units
\* elif compose.install(...)
installed_apply(W1, a, o, is_installed, has_chg, units_changed, before) ==
    IF units_changed /\ ~has_chg
    THEN installed_step(a, o,
             install_units(W1, a,
                 [ephemeral |-> o.ephemeral, pod_wants |-> o.pod_wants,
                  generate_only |-> FALSE, enable_units |-> o.enable,
                  remove_containers |-> FALSE]),
             "install_units", before, "updated", "unit files updated")
    ELSE installed_step(a, o, install(W1, a, o), "install", before,
                        Word(is_installed),
                        "has been " \o Word(is_installed))

installed_removed(a, o, is_installed, units_changed, d, r) ==
    installed_apply(r.w, a, o, is_installed, TRUE, units_changed,
                    <<"dead">> \o d.calls \o <<"removed">> \o r.calls)

\* removed(name, volumes=True, ...)
installed_dead_as(a, o, is_installed, units_changed, d) ==
    installed_removed(a, o, is_installed, units_changed, d,
                      removed(d.w, a, TRUE, FALSE))

\* removed(name, volumes=False, ...)
installed_dead(a, o, is_installed, units_changed, d) ==
    installed_removed(a, o, is_installed, units_changed, d,
                      removed(d.w, a, FALSE, FALSE))

\* if has_changes and is_installed: dead(...); removed(..., volumes=False)
installed_update(W, a, o, settles, is_installed, has_chg, units_changed) ==
    IF has_chg /\ is_installed
    THEN installed_dead(a, o, is_installed, units_changed,
                        dead(W, a, FALSE, settles))
    ELSE installed_apply(W, a, o, is_installed, has_chg, units_changed, <<>>)

installed_test(W, a, o, test, settles, is_installed, has_chg, changed) ==
    IF test
    THEN Out(Ret("None", Word(is_installed),
                 "set to be " \o Word(is_installed)), <<>>, W)
    ELSE installed_update(W, a, o, settles, is_installed, has_chg,
                          changed)

installed_sync(W, a, o, test, settles, is_installed, has_chg, changed) ==
    IF is_installed /\ ~has_chg /\ ~changed
    THEN Out(Ret("True", "", "in sync"), <<>>, W)
    ELSE installed_test(W, a, o, test, settles, is_installed, has_chg,
                        changed)

installed_checked(W, a, o, test, settles, is_installed, hc, gen) ==
    IF is_installed /\ ~o.update
    THEN Out(Ret("True", "", "already installed"), <<>>, W)
    ELSE IF hc.exc # "" THEN Caught(hc.exc, <<>>, W)
    ELSE IF gen.exc # "" THEN Caught(gen.exc, <<>>, W)
    ELSE installed_sync(W, a, o, test, settles, is_installed, hc.b,
                        UnitsChanged(W, gen.defs))

\* with force_recreate only is_installed is bound: the first use of
\* has_changes after the test-mode return raises UnboundLocalError
installed_forced(W, test) ==
    IF test THEN Out(Ret("None", "updated", "set to be updated"), <<>>, W)
    ELSE Out(Ret("crash", "", "UnboundLocalError"), <<>>, W)

installed(W, a, o, test, settles) ==
    IF o.force_recreate THEN installed_forced(W, test)
    ELSE installed_checked(W, a, o, test, settles,
             list_installed_units_status(W, a),
             has_changes(W, a, TRUE, ~o.remove_orphans),
             install_units(W, a,
                 [ephemeral |-> o.ephemeral, pod_wants |-> TRUE,
                  generate_only |-> TRUE, enable_units |-> TRUE,
                  remove_containers |-> FALSE]))

\* the loop giving up as soon as the elapsed time reaches timeout
running_poll_of_as(fr, el, ir) ==
    IF ir.exc # ""
    THEN [done |-> TRUE, ret |-> Ret("False", fr.ret.changes, ir.exc)]
    ELSE IF ir.b THEN [done |-> TRUE, ret |-> fr.ret]
    ELSE IF el >= fr.timeout * TicksPerSecond
    THEN [done |-> TRUE, ret |-> Ret("False", "", "still not running")]
    ELSE [done |-> FALSE, ret |-> fr.ret]

running_poll_of(fr, el, ir) ==
    IF ir.exc # ""
    THEN [done |-> TRUE, ret |-> Ret("False", fr.ret.changes, ir.exc)]
    ELSE IF ir.b THEN [done |-> TRUE, ret |-> fr.ret]
    ELSE IF el > fr.timeout * TicksPerSecond
    THEN [done |-> TRUE, ret |-> Ret("False", "", "still not running")]
    ELSE [done |-> FALSE, ret |-> fr.ret]

\* one pass of "while not is_running(): if time.time() - start_time >
\* timeout: return failure; time.sleep(0.25)"
running_poll(W, a, fr, el) == running_poll_of(fr, el, is_running(W, a))

dead_poll_of(fr, el, id) ==
    IF id.exc # ""
    THEN [done |-> TRUE, ret |-> Ret("False", fr.ret.changes, id.exc)]
    ELSE IF id.b THEN [done |-> TRUE, ret |-> fr.ret]
    ELSE IF el > fr.timeout * TicksPerSecond
    THEN [done |-> TRUE, ret |-> Ret("False", "", "still running")]
    ELSE [done |-> FALSE, ret |-> fr.ret]

\* one pass of "while not is_dead(): ..."
dead_poll(W, a, fr, el) == dead_poll_of(fr, el, is_dead(W, a))

(***************************************************************************)
(* The state machine.                                                      *)
(***************************************************************************)
UnitArgs ==
    {[container_prefix |-> p[1], pod_prefix |-> p[2], separator |-> sep] :
        p \in {<<"", "">>, <<"c", "p">>}, sep \in {NoneV, "_"}}

Cfgs ==
    {[a |-> a, ephemeral |-> e, pod_wants |-> pw, create_pod |-> cp] :
        a \in UnitArgs, e \in BOOLEAN, pw \in BOOLEAN,
        cp \in {NoneV, "True", "False"}}

NoFrame == [in |-> <<>>, timeout |-> 0, ret |-> Ret("True", "", ""),
            calls |-> <<>>]
NoLast == [op |-> "none", in |-> <<>>, again |-> FALSE,
           ret |-> Ret("True", "", ""), calls |-> <<>>, val |-> <<>>]
NotApplied == [op |-> "none"]
NoContext == [k \in {} |-> 0]

SetWorld(W) ==
    /\ composeFile' = W.cf
    /\ unitFiles' = W.units
    /\ containers' = W.cnts
    /\ otherPod' = W.other
    /\ active' = W.active
    /\ starting' = W.starting
    /\ stopping' = W.stopping

Idle == pc = "idle"
StayIdle == UNCHANGED <<elapsed, pc, frame, cfg, host>>

Init ==
    /\ composeFile = [rev |-> 1, services |-> ServicesOfRev(1)]
    /\ unitFiles = NoUnits
    /\ containers = {}
    /\ otherPod = FALSE
    /\ active = {}
    /\ starting = {}
    /\ stopping = {}
    /\ elapsed = 0
    /\ pc = "idle"
    /\ frame = NoFrame
    /\ last = NoLast
    /\ applied = NotApplied
    /\ cfg \in Cfgs
    /\ bus = {}
    /\ linger = {}
    /\ context = NoContext
    /\ images = {}

(***************************************************************************)
(* The environment.                                                        *)
(***************************************************************************)
\* the administrator edits docker-compose.yml
EditComposeFile ==
    /\ Idle
    /\ \E f \in ComposeFiles \ {composeFile} : composeFile' = f
    /\ applied' = NotApplied
    /\ UNCHANGED <<unitFiles, containers, otherPod, active, starting,
                   stopping>>
    /\ last' = NoLast
    /\ StayIdle

\* a pod of another project of the same user appears or goes away
ToggleOtherPod ==
    /\ Idle
    /\ otherPod' = ~otherPod
    /\ applied' = NotApplied
    /\ UNCHANGED <<composeFile, unitFiles, containers, active, starting,
                   stopping>>
    /\ last' = NoLast
    /\ StayIdle

\* somebody creates a container labelled with the project by hand: it has
\* no io.podman.compose.config-hash label
ForeignContainer ==
    /\ Idle
    /\ ~\E c \in containers : c.svc = Foreign
    /\ containers' = containers \cup
            {[svc |-> Foreign, hash |-> NoHash, inPod |-> FALSE]}
    /\ applied' = NotApplied
    /\ UNCHANGED <<composeFile, unitFiles, otherPod, active, starting,
                   stopping>>
    /\ last' = NoLast
    /\ StayIdle

\* systemd finishes bringing a container unit up, or fails to
UnitComesUp ==
    /\ \E u \in starting, okay \in BOOLEAN :
          SetWorld(IF okay THEN UnitUp(World, u)
                   ELSE [World EXCEPT !.starting = @ \ {u}])
    /\ last' = NoLast
    /\ UNCHANGED <<elapsed, pc, frame, applied, cfg, host>>

\* systemd finishes bringing a container unit down
UnitGoesDown ==
    /\ \E u \in stopping : SetWorld(UnitDown(World, u))
    /\ last' = NoLast
    /\ UNCHANGED <<elapsed, pc, frame, applied, cfg, host>>

\* the container of an active unit exits on its own
UnitExits ==
    /\ \E u \in active \cap ContainerUnits(World) :
          SetWorld(UnitDown(World, u))
    /\ last' = NoLast
    /\ UNCHANGED <<elapsed, pc, frame, applied, cfg, host>>

(***************************************************************************)
(* Execution-module functions called directly (salt '*' compose.<fn>).     *)
(***************************************************************************)
Finish(op, in, out, val) ==
    /\ SetWorld(out.w)
    /\ last' = [op |-> op, in |-> in, again |-> FALSE, ret |-> out.ret,
                calls |-> out.calls, val |-> val]

ModuleOut(exc, w) ==
    Out(Ret(IF exc = "" THEN "True" ELSE exc, "", exc), <<>>, w)

HasChanges ==
    /\ Idle
    /\ \E status_only \in BOOLEAN, skip_removed \in BOOLEAN :
          LET r == has_changes(World, cfg.a, status_only, skip_removed)
          IN  Finish("has_changes",
                     [status_only |-> status_only,
                      skip_removed |-> skip_removed],
                     ModuleOut(r.exc, World), r)
    /\ UNCHANGED applied
    /\ StayIdle

ListMissingUnits ==
    /\ Idle
    /\ \E should_have_pod \in {NoneV, "True", "False"},
           status_only \in BOOLEAN :
          Finish("list_missing_units",
                 [should_have_pod |-> should_have_pod,
                  status_only |-> status_only],
                 ModuleOut("", World),
                 IF status_only
                 THEN [type |-> "bool",
                       b |-> list_missing_units_status(World, cfg.a,
                                                       should_have_pod)]
                 ELSE [type |-> "map",
                       m |-> list_missing_units(World, cfg.a,
                                                should_have_pod)])
    /\ UNCHANGED applied
    /\ StayIdle

\* salt '*' compose.pps proj
Pps ==
    /\ Idle
    /\ Finish("pps", [project |-> project], ModuleOut("", World),
              [pods |-> pps(World)])
    /\ UNCHANGED applied
    /\ StayIdle

Install ==
    /\ Idle
    /\ \E fr \in BOOLEAN :
          LET r == install(World, cfg.a,
                     [create_pod |-> cfg.create_pod, remove_orphans |-> TRUE,
                      force_recreate |-> fr, ephemeral |-> cfg.ephemeral,
                      pod_wants |-> cfg.pod_wants, enable_units |-> TRUE])
          IN  Finish("install", [force_recreate |-> fr],
                     ModuleOut(r.exc, r.w), <<>>)
    /\ applied' = NotApplied
    /\ StayIdle

Start ==
    /\ Idle
    /\ LET r == start(World, cfg.a)
       IN  Finish("start", <<>>, ModuleOut(r.exc, r.w), <<>>)
    /\ UNCHANGED applied
    /\ StayIdle

Remove ==
    /\ Idle
    /\ \E volumes \in BOOLEAN :
          LET r == remove(World, cfg.a, volumes)
          IN  Finish("remove",
                     [volumes |-> volumes,
                      wasActive |-> AllUnits(World, cfg.a) \cap active,
                      hadUnits |-> AllUnits(World, cfg.a)],
                     ModuleOut(r.exc, r.w),
                     [down |-> r.down,
                      removedUnits |-> DOMAIN unitFiles \ DOMAIN r.w.units])
    /\ applied' = NotApplied
    /\ StayIdle

(***************************************************************************)
(* The state functions, as the state compiler calls them.                  *)
(***************************************************************************)

\* remove_orphans and enable are left at their defaults (True)
Installed ==
    /\ Idle
    /\ \E test \in BOOLEAN, force_recreate \in BOOLEAN, update \in BOOLEAN,
           settles \in BOOLEAN :
          LET in == [test |-> test, force_recreate |-> force_recreate,
                     update |-> update]
              o == [update |-> update, create_pod |-> cfg.create_pod,
                    remove_orphans |-> TRUE,
                    force_recreate |-> force_recreate,
                    ephemeral |-> cfg.ephemeral, pod_wants |-> cfg.pod_wants,
                    enable |-> TRUE, enable_units |-> TRUE]
              out == installed(World, cfg.a, o, test, settles)
              me == [op |-> "installed", in |-> in]
          IN  /\ SetWorld(out.w)
              /\ last' = [op |-> "installed", in |-> in,
                          again |-> applied = me, ret |-> out.ret,
                          calls |-> out.calls,
                          val |-> [fresh |-> unitFiles = NoUnits
                                        /\ containers = {} /\ ~otherPod,
                                   is_installed |->
                                        list_installed_units_status(
                                            World, cfg.a),
                                   has_changes |->
                                        has_changes(World, cfg.a, TRUE,
                                                    FALSE),
                                   missing |-> list_missing_units_status(
                                        out.w, cfg.a, cfg.create_pod)]]
              /\ applied' = IF ~test /\ out.ret.result = "True" THEN me
                            ELSE IF out.w = World THEN applied
                            ELSE NotApplied
    /\ StayIdle

Removed ==
    /\ Idle
    /\ \E test \in BOOLEAN, volumes \in BOOLEAN :
          Finish("removed", [test |-> test, volumes |-> volumes],
                 removed(World, cfg.a, volumes, test), <<>>)
    /\ applied' = NotApplied
    /\ StayIdle

\* what the last status check of a state function saw
Seen(W) == [units |-> AllUnits(W, cfg.a),
            running |-> AllUnits(W, cfg.a) \cap W.active]

Begin(op, in, e, timeout) ==
    /\ SetWorld(e.w)
    /\ cfg' = cfg
    /\ UNCHANGED host
    /\ applied' = applied
    /\ elapsed' = 0
    /\ IF e.done
       THEN /\ pc' = "idle"
            /\ frame' = NoFrame
            /\ last' = [op |-> op, in |-> in, again |-> FALSE,
                        ret |-> e.ret, calls |-> e.calls,
                        val |-> [polled |-> FALSE, seen |-> Seen(World)]]
       ELSE /\ pc' = op
            /\ frame' = [in |-> in, timeout |-> timeout, ret |-> e.ret,
                         calls |-> e.calls]
            /\ last' = [op |-> op \o "_begin", in |-> in, again |-> FALSE,
                        ret |-> e.ret, calls |-> e.calls, val |-> <<>>]

Poll(op, p) ==
    /\ pc = op
    /\ UNCHANGED <<composition, host>>
    /\ IF p.done
       THEN /\ pc' = "idle"
            /\ frame' = NoFrame
            /\ elapsed' = 0
            /\ last' = [op |-> op, in |-> frame.in, again |-> FALSE,
                        ret |-> p.ret, calls |-> frame.calls,
                        val |-> [polled |-> TRUE, seen |-> Seen(World),
                                 elapsed |-> elapsed]]
       ELSE /\ \E over \in 0..MaxOversleep : elapsed' = elapsed + 1 + over
            /\ UNCHANGED <<pc, frame, last>>

DeadBegin ==
    /\ Idle
    /\ \E test \in BOOLEAN, timeout \in 0..MaxTimeout :
          Begin("dead", [test |-> test, timeout |-> timeout],
                dead_entry(World, cfg.a, test), timeout)

DeadPoll == Poll("dead", dead_poll(World, cfg.a, frame, elapsed))

RunningBegin ==
    /\ Idle
    /\ \E test \in BOOLEAN, timeout \in 0..MaxTimeout :
          Begin("running", [test |-> test, timeout |-> timeout],
                running_entry(World, cfg.a, test), timeout)

RunningPoll == Poll("running", running_poll(World, cfg.a, frame, elapsed))

(***************************************************************************)
(* User sessions: systemctl and journalctl on behalf of an account.        *)
(***************************************************************************)
Accounts == {"root", "alice"}         \* the accounts user.info knows
Users == Accounts \cup {"ghost"}      \* "ghost" is no account of the host
Uid(user) == IF user = "root" THEN "0" ELSE "1000"
Units == {"web", "web.alice"}         \* unit names a caller may pass

\* Python's truth value of a string or None
Bool(x) == x # NoneV /\ x # ""

\* __salt__["user.info"](user): empty for an unknown account
user_info(user) ==
    IF user \in Accounts
    THEN [known |-> TRUE, uid |-> Uid(user), home |-> "/home/" \o user]
    ELSE [known |-> FALSE, uid |-> NoneV, home |-> NoneV]

_user_info(user, var) ==
    LET info == user_info(user)
    IN  IF ~info.known THEN [exc |-> "SaltInvocationError", val |-> NoneV]
        ELSE IF info[var] = NoneV
        THEN [exc |-> "SaltInvocationError", val |-> NoneV]
        ELSE [exc |-> "", val |-> info[var]]

\* an option without and with a value, as the argument lists hold them
Flag(k) == [tuple |-> FALSE, k |-> k, v |-> ""]
Pair(k, v) == [tuple |-> TRUE, k |-> k, v |-> v]

_parse_args(args) ==
    [i \in DOMAIN args |->
        IF args[i].tuple THEN "--" \o args[i].k \o "=" \o args[i].v
        ELSE "--" \o args[i].k]

\* params=None and params=[...]
NoParams == [none |-> TRUE, list |-> <<>>]
Params(list) == [none |-> FALSE, list |-> list]

\* the outcome of a helper: the exception it raised, the exit code of the
\* command, and the commands cmd.run_all executed
Ran(exc, retcode, calls) == [exc |-> exc, retcode |-> retcode, calls |-> calls]

_run(bin_path, command, args, params, runas, lenient, env, retcode) ==
    LET cmd == <<bin_path>> \o _parse_args(args) \o <<command>>
                   \o (IF params.none THEN <<>> ELSE <<"--">> \o params.list)
        call == [cmd |-> cmd, runas |-> runas, env |-> env]
    IN  IF ~lenient /\ retcode # 0
        THEN Ran("CommandExecutionError", retcode, <<call>>)
        ELSE Ran("", retcode, <<call>>)

xdg_runtime_dir(uid) == "/run/user/" \o uid
dbus_session_bus(uid) == xdg_runtime_dir(uid) \o "/bus"

\* Path(p).exists() on a host whose session bus sockets are B
PathExists_as(B, p) == TRUE
PathExists(B, p) == p \in B

SessionEnv(uid) ==
    <<[k |-> "XDG_RUNTIME_DIR", v |-> xdg_runtime_dir(uid)],
      [k |-> "DBUS_SESSION_BUS_ADDRESS",
       v |-> "unix:path=" \o dbus_session_bus(uid)]>>

\* lenient: expect_error or not raise_error
_systemctl(B, command, params, runas, lenient, retcode) ==
    IF ~Bool(runas)
    THEN _run("systemctl", command, <<>>, params, runas, lenient, <<>>,
              retcode)
    ELSE LET uid == _user_info(runas, "uid")
         IN  IF uid.exc # "" THEN Ran(uid.exc, 0, <<>>)
             ELSE IF ~PathExists(B, dbus_session_bus(uid.val))
             THEN Ran("CommandExecutionError", 0, <<>>)
             ELSE _run("systemctl", command, <<Flag("user")>>, params,
                       runas, lenient, SessionEnv(uid.val), retcode)

_journalctl(B, unit, runas, lenient, retcode) ==
    IF ~Bool(runas)
    THEN _run("journalctl", "", <<>>, NoParams, runas, lenient, <<>>,
              retcode)
    ELSE LET uid == _user_info(runas, "uid")
         IN  IF uid.exc # "" THEN Ran(uid.exc, 0, <<>>)
             ELSE IF ~PathExists(B, dbus_session_bus(uid.val))
             THEN Ran("CommandExecutionError", 0, <<>>)
             ELSE _run("journalctl", "",
                       <<Flag("user"), Flag("reverse"), Pair("unit", unit)>>,
                       NoParams, runas, lenient, SessionEnv(uid.val),
                       retcode)

\* a login session of an account begins or ends
SessionOpens ==
    /\ Idle
    /\ \E u \in Accounts :
          /\ dbus_session_bus(Uid(u)) \notin bus
          /\ bus' = bus \cup {dbus_session_bus(Uid(u))}
    /\ last' = NoLast
    /\ UNCHANGED <<composition, elapsed, pc, frame, linger, context, images>>

SessionCloses ==
    /\ Idle
    /\ \E u \in Accounts :
          /\ dbus_session_bus(Uid(u)) \in bus
          /\ u \notin linger
          /\ bus' = bus \ {dbus_session_bus(Uid(u))}
    /\ last' = NoLast
    /\ UNCHANGED <<composition, elapsed, pc, frame, linger, context, images>>

\* the result of a helper call as the caller sees it
HostCall(op, in, r) ==
    last' = [op |-> op, in |-> in, again |-> FALSE,
             ret |-> Ret(IF r.exc = "" THEN "True" ELSE r.exc, "", r.exc),
             calls |-> r.calls, val |-> [retcode |-> r.retcode]]

SystemctlInputs ==
    [command : {"start", "status"}, unit : Units,
     user : Users \cup {NoneV, ""}, lenient : BOOLEAN]

Systemctl ==
    /\ Idle
    /\ \E in \in SystemctlInputs, retcode \in {0, 3} :
          HostCall("systemctl", in,
                   _systemctl(bus, in.command, Params(<<in.unit>>), in.user,
                              in.lenient, retcode))
    /\ UNCHANGED <<composition, elapsed, pc, frame, host>>

Journalctl ==
    /\ Idle
    /\ \E unit \in Units, user \in Users \cup {NoneV, ""},
          retcode \in {0, 1} :
          HostCall("journalctl", [unit |-> unit, user |-> user],
                   _journalctl(bus, unit, user, FALSE, retcode))
    /\ UNCHANGED <<composition, elapsed, pc, frame, host>>

(***************************************************************************)
(* user_service.lingering_managed and the loginctl functions it calls.     *)
(***************************************************************************)
LingerTimeout == 10          \* seconds lingering_managed means to wait
LingerTicksPerSecond == 10   \* time.sleep(0.1)
MaxWait == 102               \* ticks of 0.1 s the model follows one wait

\* loginctl show-user: fails for an account that is neither logged in nor
\* lingering
lingering_enabled(B, L, user) ==
    IF user \notin L /\ dbus_session_bus(Uid(user)) \notin B THEN FALSE
    ELSE user \in L

\* loginctl enable-linger / disable-linger
lingering_enable(L, user, retcode) ==
    IF retcode # 0 THEN [exc |-> "CommandExecutionError", linger |-> L]
    ELSE [exc |-> "", linger |-> L \cup {user}]
lingering_disable(L, user, retcode) ==
    IF retcode # 0 THEN [exc |-> "CommandExecutionError", linger |-> L]
    ELSE [exc |-> "", linger |-> L \ {user}]

Verb(en) == IF en THEN "enable" ELSE "disable"

\* lingering_managed up to the wait loop
LingerEntry(ret, calls, L, done) ==
    [ret |-> ret, calls |-> calls, linger |-> L, done |-> done]

lingering_managed_entry(B, L, name, en, test, retcode) ==
    LET func == IF en THEN lingering_enable(L, name, retcode)
                ELSE lingering_disable(L, name, retcode)
    IN  IF ~user_info(name).known
        THEN IF test
             THEN LingerEntry(Ret("None", "", "does not exist"), <<>>, L,
                              TRUE)
             ELSE LingerEntry(Ret("False", "", "SaltInvocationError"), <<>>,
                              L, TRUE)
        ELSE IF lingering_enabled(B, L, name) = en
        THEN LingerEntry(Ret("True", "", "already " \o Verb(en) \o "d"),
                         <<>>, L, TRUE)
        ELSE IF test
        THEN LingerEntry(Ret("None", "lingering",
                             "set to be " \o Verb(en) \o "d"),
                         <<>>, L, FALSE)
        ELSE IF func.exc # ""
        THEN LingerEntry(Ret("False", "", func.exc),
                         <<"lingering_" \o Verb(en)>>, func.linger, TRUE)
        ELSE LingerEntry(Ret("True", "", ""),
                         <<"lingering_" \o Verb(en)>>, func.linger,
                         FALSE)

\* while start - time.time() < 10, in ticks of 0.1 s (t0 is start)
lingering_waiting(t0, now) ==
    t0 - now < LingerTimeout * LingerTicksPerSecond

\* one pass of the wait loop, el ticks after start
lingering_poll(B, fr, el) ==
    IF ~lingering_waiting(0, el)
    THEN [done |-> TRUE,
          ret |-> Ret("False", fr.ret.changes,
                      "the reported state does not match the expected")]
    ELSE IF PathExists(B, dbus_session_bus(Uid(fr.in.name))) = fr.in.enable
    THEN [done |-> TRUE,
          ret |-> Ret(fr.ret.result, "lingering",
                      "has been " \o Verb(fr.in.enable) \o "d")]
    ELSE [done |-> FALSE, ret |-> fr.ret]

\* logind starts or stops the user manager of an account to follow its
\* lingering setting, some time after the setting changed
LingerSettles ==
    /\ \E u \in Accounts :
          LET sock == dbus_session_bus(Uid(u))
          IN  \/ u \in linger /\ sock \notin bus /\ bus' = bus \cup {sock}
              \/ u \notin linger /\ sock \in bus /\ bus' = bus \ {sock}
    /\ last' = NoLast
    /\ UNCHANGED <<composition, elapsed, pc, frame, linger, context, images>>

LingeringBegin ==
    /\ Idle
    /\ \E name \in Users, en \in BOOLEAN, test \in BOOLEAN,
          retcode \in {0, 1} :
          LET in == [name |-> name, enable |-> en, test |-> test]
              e == lingering_managed_entry(bus, linger, name, en, test,
                                           retcode)
          IN  /\ linger' = e.linger
              /\ IF e.done
                 THEN /\ pc' = "idle"
                      /\ frame' = NoFrame
                      /\ last' = [op |-> "lingering_managed", in |-> in,
                                  again |-> FALSE, ret |-> e.ret,
                                  calls |-> e.calls,
                                  val |-> [polled |-> FALSE, elapsed |-> 0]]
                 ELSE /\ pc' = "lingering"
                      /\ frame' = [in |-> in, timeout |-> LingerTimeout,
                                   ret |-> e.ret, calls |-> e.calls]
                      /\ last' = [op |-> "lingering_managed_begin",
                                  in |-> in, again |-> FALSE, ret |-> e.ret,
                                  calls |-> e.calls, val |-> <<>>]
    /\ elapsed' = 0
    /\ UNCHANGED <<composition, bus, context, images>>

LingeringPoll ==
    /\ pc = "lingering"
    /\ LET p == lingering_poll(bus, frame, elapsed)
       IN  IF p.done
           THEN /\ pc' = "idle"
                /\ frame' = NoFrame
                /\ elapsed' = 0
                /\ last' = [op |-> "lingering_managed", in |-> frame.in,
                            again |-> FALSE, ret |-> p.ret,
                            calls |-> frame.calls,
                            val |-> [polled |-> TRUE, elapsed |-> elapsed]]
           ELSE /\ elapsed < MaxWait
                /\ elapsed' = elapsed + 1
                /\ UNCHANGED <<pc, frame, last>>
    /\ UNCHANGED <<composition, host>>

(***************************************************************************)
(* podman.create, podman.run and podman.pull of src/_modules/podmanmod.py. *)
(* An error of the podman client is a record: cls its class ("" for        *)
(* success), api whether it is an APIError (ImageNotFound is one), ink     *)
(* whether its message contains "image not known".                         *)
(***************************************************************************)
Images == {"app", "db"}

NoError == [cls |-> "", api |-> FALSE, ink |-> FALSE]
ImageNotKnown == [cls |-> "APIError", api |-> TRUE, ink |-> TRUE]
ImageNotFound == [cls |-> "ImageNotFound", api |-> TRUE, ink |-> TRUE]
OtherAPIError == [cls |-> "APIError", api |-> TRUE, ink |-> FALSE]
OtherPodmanError == [cls |-> "PodmanError", api |-> FALSE, ink |-> FALSE]

\* what an attempt to create a container from an image can end with
ClientErrors(known) ==
    IF known THEN {NoError, OtherAPIError, OtherPodmanError}
    ELSE {ImageNotKnown, ImageNotFound}

\* the outcome of the i-th attempt; attempts beyond the listed ones succeed
Attempt(errs, i) == IF i \in DOMAIN errs THEN errs[i] ELSE NoError

PodmanResult(exc, calls, I) == [exc |-> exc, calls |-> calls, images |-> I]

pull(I, image, pull_ok) ==
    IF pull_ok THEN PodmanResult("", <<"pull">>, I \cup {image})
    ELSE PodmanResult("CommandExecutionError", <<"pull">>, I)

\* if is_retry: raise
create_gives_up_as(is_retry) == FALSE
create_gives_up(is_retry) == is_retry

RECURSIVE create(_, _, _, _, _, _)
create_retry(image, errs, i, pull_ok, p) ==
    IF p.exc # "" THEN PodmanResult(p.exc, <<"create">> \o p.calls, p.images)
    ELSE LET r == create(p.images, image, TRUE, errs, i + 1, pull_ok)
         IN  PodmanResult(r.exc, <<"create">> \o p.calls \o r.calls,
                          r.images)

create_failed(I, image, is_retry, errs, i, pull_ok, err) ==
    IF ~(err.api \/ err.cls = "ImageNotFound")
    THEN PodmanResult("CommandExecutionError", <<"create">>, I)
    ELSE IF err.api /\ ~err.ink
    THEN PodmanResult("CommandExecutionError", <<"create">>, I)
    ELSE IF create_gives_up(is_retry)
    THEN PodmanResult("CommandExecutionError", <<"create">>, I)
    ELSE create_retry(image, errs, i, pull_ok, pull(I, image, pull_ok))

create_attempt(I, image, is_retry, errs, i, pull_ok, err) ==
    IF err.cls = "" THEN PodmanResult("", <<"create">>, I)
    ELSE create_failed(I, image, is_retry, errs, i, pull_ok, err)

create(I, image, is_retry, errs, i, pull_ok) ==
    create_attempt(I, image, is_retry, errs, i, pull_ok, Attempt(errs, i))

RECURSIVE run(_, _, _, _, _, _)
run_retry(image, errs, i, pull_ok, p) ==
    IF p.exc # "" THEN PodmanResult(p.exc, <<"run">> \o p.calls, p.images)
    ELSE LET r == run(p.images, image, TRUE, errs, i + 1, pull_ok)
         IN  PodmanResult(r.exc, <<"run">> \o p.calls \o r.calls, r.images)

run_attempt(I, image, is_retry, errs, i, pull_ok, err) ==
    IF err.cls = "" THEN PodmanResult("", <<"run">>, I)
    ELSE IF ~is_retry /\ err.api /\ err.ink
    THEN run_retry(image, errs, i, pull_ok, pull(I, image, pull_ok))
    ELSE PodmanResult("CommandExecutionError", <<"run">>, I)

run(I, image, is_retry, errs, i, pull_ok) ==
    run_attempt(I, image, is_retry, errs, i, pull_ok, Attempt(errs, i))

\* the outcomes a top-level call can meet: the first attempt fails as
\* "image not known" exactly when the store does not know the image
AttemptErrors(I, image) ==
    {<<first, second>> :
        first \in ClientErrors(image \in I),
        second \in ClientErrors(TRUE) \cup ClientErrors(FALSE)}

\* _find_podman_sock raises CommandExecutionError when the API socket of
\* the podman service is missing
_find_podman_sock(sock, r) ==
    IF sock THEN r ELSE PodmanResult("CommandExecutionError", <<>>, images)

PodmanCall(op, image, sock, errs, pull_ok, r) ==
    /\ images' = r.images
    /\ last' = [op |-> op,
                in |-> [image |-> image, known |-> image \in images,
                        sock |-> sock, errs |-> errs, pull_ok |-> pull_ok],
                again |-> FALSE,
                ret |-> Ret(IF r.exc = "" THEN "True" ELSE r.exc, "", r.exc),
                calls |-> r.calls, val |-> <<>>]
    /\ UNCHANGED <<composition, elapsed, pc, frame, bus, linger, context>>

Create ==
    /\ Idle
    /\ \E image \in Images, sock \in BOOLEAN, pull_ok \in BOOLEAN :
          \E errs \in AttemptErrors(images, image) :
              PodmanCall("create", image, sock, errs, pull_ok,
                  _find_podman_sock(sock,
                      create(images, image, FALSE, errs, 1, pull_ok)))

Run ==
    /\ Idle
    /\ \E image \in Images, sock \in BOOLEAN, pull_ok \in BOOLEAN :
          \E errs \in AttemptErrors(images, image) :
              PodmanCall("run", image, sock, errs, pull_ok,
                  _find_podman_sock(sock,
                      run(images, image, FALSE, errs, 1, pull_ok)))

\* podman.rmi: an image leaves the local store
Rmi ==
    /\ Idle
    /\ \E image \in images : images' = images \ {image}
    /\ last' = NoLast
    /\ UNCHANGED <<composition, elapsed, pc, frame, bus, linger, context>>

(***************************************************************************)
(* The systemctl status cache of src/_modules/compose.py.  A context key   *)
(* is the pair of its fixed prefix and the text formatted after it, so     *)
(* that _clear_context can test the prefix; a cached value is the output   *)
(* of the command that produced it: its exit code, and the unit and the    *)
(* user whose unit the output describes.                                   *)
(***************************************************************************)
StatusUsers == {NoneV, "alice"}
StatusPrefix == "compose._systemctl_status."

\* contextkey = f"compose._systemctl_status.{name}", then += f".{user}"
contextkey(name, user) ==
    [prefix |-> StatusPrefix,
     rest |-> IF user # NoneV THEN name \o "." \o user ELSE name]

StatusOutput(name, user, retcode) ==
    [retcode |-> retcode, unit |-> name, user |-> user]

Cached(exc, val, calls, C) ==
    [exc |-> exc, val |-> val, calls |-> calls, context |-> C]

_systemctl_status_run(C, key, name, user, r) ==
    IF r.exc # "" THEN Cached(r.exc, NoneV, r.calls, C)
    ELSE Cached("", StatusOutput(name, user, r.retcode), r.calls,
                Merge(C, [k \in {key} |->
                             StatusOutput(name, user, r.retcode)]))

_systemctl_status_key(C, B, key, name, user, retcode) ==
    IF key \in DOMAIN C THEN Cached("", C[key], <<>>, C)
    ELSE _systemctl_status_run(C, key, name, user,
             _systemctl(B, "status", Params(<<name>>), user, TRUE, retcode))

_systemctl_status(C, B, name, user, retcode) ==
    _systemctl_status_key(C, B, contextkey(name, user), name, user, retcode)

\* pops every key that starts with "compose._systemctl_status."
_clear_context(C) ==
    Restrict(C, {k \in DOMAIN C : k.prefix # StatusPrefix})

systemctl_reload(C, r) ==
    IF r.exc # "" THEN Cached(r.exc, NoneV, r.calls, C)
    ELSE Cached("", "True", r.calls, _clear_context(C))

\* the cached outputs of commands that were run for (name, user)
OwnEntries(C, name, user) ==
    {k \in DOMAIN C : C[k].unit = name /\ C[k].user = user}

ContextCall(op, in, r, own) ==
    /\ context' = r.context
    /\ last' = [op |-> op, in |-> in, again |-> FALSE,
                ret |-> Ret(IF r.exc = "" THEN "True" ELSE r.exc, "", r.exc),
                calls |-> r.calls, val |-> [status |-> r.val, own |-> own]]
    /\ UNCHANGED <<composition, elapsed, pc, frame, bus, linger, images>>

SystemctlStatus ==
    /\ Idle
    /\ \E name \in Units, user \in StatusUsers, retcode \in {0, 3} :
          ContextCall("systemctl_status", [name |-> name, user |-> user],
                      _systemctl_status(context, bus, name, user, retcode),
                      OwnEntries(context, name, user) # {})

SystemctlReload ==
    /\ Idle
    /\ \E user \in StatusUsers, retcode \in {0, 1} :
          ContextCall("systemctl_reload", [user |-> user],
                      systemctl_reload(context,
                          _systemctl(bus, "daemon-reload", NoParams, user,
                                     FALSE, retcode)),
                      FALSE)

\* a new run of the minion starts with an empty __context__
NewRun ==
    /\ Idle
    /\ context # NoContext
    /\ context' = NoContext
    /\ last' = NoLast
    /\ UNCHANGED <<composition, elapsed, pc, frame, bus, linger, images>>

Next ==
    \/ EditComposeFile
    \/ ToggleOtherPod
    \/ ForeignContainer
    \/ UnitComesUp
    \/ UnitGoesDown
    \/ UnitExits
    \/ HasChanges
    \/ ListMissingUnits
    \/ Pps
    \/ Install
    \/ Start
    \/ Remove
    \/ Installed
    \/ Removed
    \/ DeadBegin
    \/ DeadPoll
    \/ RunningBegin
    \/ RunningPoll
    \/ SessionOpens
    \/ SessionCloses
    \/ Systemctl
    \/ Journalctl
    \/ LingerSettles
    \/ LingeringBegin
    \/ LingeringPoll
    \/ Create
    \/ Run
    \/ Rmi
    \/ SystemctlStatus
    \/ SystemctlReload
    \/ NewRun

Spec == Init /\ [][Next]_vars

(***************************************************************************)
(* The same system restricted to the operations one area of the module is  *)
(* about; the cfg chosen by Init and every action are those of Spec.       *)
(***************************************************************************)
NextInstalled ==
    \/ EditComposeFile
    \/ Install
    \/ Installed
    \/ Removed

SpecInstalled == Init /\ [][NextInstalled]_vars

NextChanges ==
    \/ EditComposeFile
    \/ ForeignContainer
    \/ Install
    \/ HasChanges

SpecChanges == Init /\ [][NextChanges]_vars

NextUnits ==
    \/ EditComposeFile
    \/ Install
    \/ Remove
    \/ ListMissingUnits

SpecUnits == Init /\ [][NextUnits]_vars

NextStop ==
    \/ UnitComesUp
    \/ UnitGoesDown
    \/ UnitExits
    \/ Install
    \/ Remove
    \/ RunningBegin
    \/ RunningPoll
    \/ DeadBegin
    \/ DeadPoll

SpecStop == Init /\ [][NextStop]_vars

NextPods ==
    \/ ToggleOtherPod
    \/ ForeignContainer
    \/ Install
    \/ Remove
    \/ Pps

SpecPods == Init /\ [][NextPods]_vars

NextRunning ==
    \/ UnitComesUp
    \/ UnitExits
    \/ Install
    \/ RunningBegin
    \/ RunningPoll

\* the state function keeps executing: its loop is never suspended forever
SpecRunning == Init /\ [][NextRunning]_vars /\ WF_vars(RunningPoll)

NextUpdate ==
    \/ EditComposeFile
    \/ UnitComesUp
    \/ Install
    \/ Start
    \/ Installed

\* updates of a composition whose units run, for the SLS files that leave
\* separator and pod_wants at their defaults
InitUpdate == Init /\ cfg.a.separator = NoneV /\ cfg.pod_wants

SpecUpdate == InitUpdate /\ [][NextUpdate]_vars

\* the functions below take none of the arguments of the composition: their
\* specifications start from the SLS file that leaves every one of them at
\* its default
InitHost ==
    /\ Init
    /\ cfg = [a |-> [container_prefix |-> "", pod_prefix |-> "",
                     separator |-> NoneV],
              ephemeral |-> TRUE, pod_wants |-> TRUE, create_pod |-> NoneV]

NextSession ==
    \/ SessionOpens
    \/ SessionCloses
    \/ Systemctl
    \/ Journalctl

SpecSession == InitHost /\ [][NextSession]_vars

NextImages ==
    \/ Create
    \/ Run
    \/ Rmi

SpecImages == InitHost /\ [][NextImages]_vars

NextContext ==
    \/ SessionOpens
    \/ SessionCloses
    \/ SystemctlStatus
    \/ SystemctlReload
    \/ NewRun

SpecContext == InitHost /\ [][NextContext]_vars

NextLinger ==
    \/ SessionOpens
    \/ SessionCloses
    \/ LingerSettles
    \/ LingeringBegin
    \/ LingeringPoll

SpecLinger == InitHost /\ [][NextLinger]_vars

(***************************************************************************)
(* The claims.                                                             *)
(***************************************************************************)
\* how often a state function invoked the execution-module function fn
Count(calls, fn) == Cardinality({i \in DOMAIN calls : calls[i] = fn})

\* C1: once compose.installed has applied a composition successfully in
\* non-test mode, a second call with the same arguments, an unchanged
\* compose file and untouched unit files invokes no compose.install,
\* compose.install_units, compose.stop or compose.remove and returns result
\* True with empty changes.
C1_InstalledIdempotent ==
    (last.op = "installed" /\ last.again)
        => /\ last.calls = <<>>
           /\ last.ret.result = "True"
           /\ last.ret.changes = ""

\* C2: for a composition with no installed unit files and no containers or
\* pods, compose.installed (force_recreate=False) in non-test mode invokes
\* compose.install exactly once and, when nothing is missing afterwards,
\* returns result True with changes {installed: name}; in test mode it
\* returns result None with changes {installed: name}.
C2_FreshInstall ==
    (last.op = "installed" /\ last.val.fresh /\ ~last.in.force_recreate)
        => IF last.in.test
           THEN last.ret.result = "None" /\ last.ret.changes = "installed"
           ELSE /\ Count(last.calls, "install") = 1
                /\ (~last.val.missing
                        => /\ last.ret.result = "True"
                           /\ last.ret.changes = "installed")

\* C3: compose.installed with force_recreate=True in non-test mode invokes
\* compose.install and returns a state result (result True with changes
\* {updated: name} when compose.install succeeds), it never terminates
\* abnormally.
C3_ForceRecreate ==
    (last.op = "installed" /\ last.in.force_recreate /\ ~last.in.test)
        => /\ last.ret.result # "crash"
           /\ Count(last.calls, "install") = 1

\* the containers of the project: those podman ps lists or, if there is
\* none, those described by the installed container units; the hash of the
\* current compose file and the containers whose label differs from it
C4_MissingContainers ==
    {s \in _list_units(World, cfg.a).service_names : s \notin DOMAIN unitFiles}
C4_Containers ==
    IF containers # {}
    THEN {[svc |-> c.svc, hash |-> c.hash] : c \in containers}
    ELSE {[svc |-> unitFiles[u].svc, hash |-> unitFiles[u].hash] :
             u \in _list_units(World, cfg.a).service_names
                       \cap DOMAIN unitFiles}
C4_Hash == _get_compose_hash(composeFile).hash
C4_Differs(skip_removed) ==
    {c.svc : c \in {c \in C4_Containers :
        /\ c.hash # C4_Hash
        /\ (~skip_removed \/ c.svc \in composeFile.services)}}
C4_NoLabel == \E c \in C4_Containers : c.hash = NoHash

C8_MapUnlessStatusOnly ==
    (last.op = "has_changes" /\ ~last.in.status_only /\ last.val.exc = "")
        => last.val.type = "map"

\* C9: the unit names _list_units expects are prefix + separator + name,
\* where a separator that is passed explicitly is used as given when a
\* container or pod prefix is set, and the separator defaults to "-" with a
\* prefix and to the empty string without one.
C9_Separator ==
    (last.op = "list_missing_units" /\ ~last.in.status_only)
        => LET container_prefix == cfg.a.container_prefix
               sep == IF container_prefix = "" /\ cfg.a.pod_prefix = ""
                      THEN ""
                      ELSE IF cfg.a.separator = NoneV THEN "-"
                      ELSE cfg.a.separator
           IN  \A n \in last.val.m.containers :
                  \E srv \in composeFile.services :
                     n = container_prefix \o sep \o ContainerName(srv)

\* C10: compose.list_missing_units called without should_have_pod while
\* the pod unit of the composition is not installed lists the pod unit in
\* 'pods' (and the status_only result is True).
C10_PodExpectedByDefault ==
    (/\ last.op = "list_missing_units"
     /\ last.in.should_have_pod = NoneV
     /\ _list_units(World, cfg.a).pod \notin DOMAIN unitFiles)
        => IF last.in.status_only THEN last.val.b
           ELSE last.val.m.pods = {_list_units(World, cfg.a).pod}

\* C5: if any installed unit (pod or container) of the composition is
\* still running when compose.remove is called, it raises
\* CommandExecutionError, runs no podman-compose down and removes no unit
\* file.
C5_RemoveRequiresDead ==
    (last.op = "remove" /\ last.in.wasActive # {})
        => /\ last.ret.result = "CommandExecutionError"
           /\ ~last.val.down
           /\ last.val.removedUnits = {}

\* C6: whenever compose.dead returns result True in non-test mode for a
\* composition with installed units, no installed unit of the composition
\* was running at the last status check, also when only some of the units
\* were running at entry.
C6_DeadMeansNoneRunning ==
    (/\ last.op = "dead"
     /\ ~last.in.test
     /\ last.ret.result = "True"
     /\ last.val.seen.units # {})
        => last.val.seen.running = {}

C11_PpsFiltersByProject ==
    last.op = "pps"
        => /\ \A i \in DOMAIN last.val.pods : last.val.pods[i] = "pod_proj"
           /\ (containers = {} => last.val.pods = <<>>)

\* C12: a systemctl or journalctl command requested for a non-root user
\* whose session bus socket /run/user/<uid>/bus does not exist raises
\* CommandExecutionError and executes no command; when the socket exists
\* exactly that command runs as the user with --user and with
\* XDG_RUNTIME_DIR and DBUS_SESSION_BUS_ADDRESS set for that uid; an
\* unknown user raises SaltInvocationError before any command runs.
C12_UserSessionRequired ==
    (last.op \in {"systemctl", "journalctl"}
        /\ last.in.user \notin {NoneV, "", "root"})
    => LET user == last.in.user
           uid == Uid(user)
       IN  IF user \notin Accounts
           THEN last.ret.result = "SaltInvocationError" /\ last.calls = <<>>
           ELSE IF ("/run/user/" \o uid \o "/bus") \notin bus
           THEN last.ret.result = "CommandExecutionError"
                    /\ last.calls = <<>>
           ELSE /\ Len(last.calls) = 1
                /\ last.calls[1].cmd[1] = last.op
                /\ last.calls[1].cmd[2] = "--user"
                /\ last.calls[1].runas = user
                /\ last.calls[1].env
                      = <<[k |-> "XDG_RUNTIME_DIR",
                           v |-> "/run/user/" \o uid],
                          [k |-> "DBUS_SESSION_BUS_ADDRESS",
                           v |-> "unix:path=/run/user/" \o uid \o "/bus"]>>

\* systemctl was requested for an account whose session bus socket exists
C12_Witness ==
    /\ last.op = "systemctl"
    /\ last.in.user = "alice"
    /\ "/run/user/1000/bus" \in bus
    /\ Len(last.calls) = 1
    /\ last.ret.result = "True"

\* C13: in non-test mode lingering_managed waits for the session bus socket
\* to match 'enable' for at most 10 seconds: it is never still waiting more
\* than 10 seconds after it called lingering_enable or lingering_disable.
C13_BoundedWait ==
    (pc = "lingering" /\ ~frame.in.test)
        => elapsed <= LingerTimeout * LingerTicksPerSecond

\* the positions of fn among the calls
At(calls, fn) == {i \in DOMAIN calls : calls[i] = fn}

\* a non-test compose.installed that found the units installed and
\* compose.has_changes reporting True
C14_Update ==
    /\ last.op = "installed"
    /\ ~last.in.test
    /\ ~last.in.force_recreate
    /\ last.in.update
    /\ last.val.is_installed
    /\ last.val.has_changes.exc = ""
    /\ last.val.has_changes.b

C15_Called == last.op \in {"create", "run"} /\ last.in.sock

\* C15: a podman.create or podman.run whose first attempt fails because
\* the image is not known pulls the image and, the pull having succeeded,
\* makes exactly one more attempt; a call makes at most one pull and at
\* most two attempts; a failing second attempt, and a first attempt
\* failing with any other error, raise CommandExecutionError with no
\* further pull.
C15_BoundedRetry ==
    C15_Called
    => LET first == last.in.errs[1]
           second == last.in.errs[2]
           try == last.op
           tries == Count(last.calls, last.op)
           pulls == Count(last.calls, "pull")
       IN  /\ pulls <= 1 /\ tries <= 2
           /\ last.ret.result \in {"True", "CommandExecutionError"}
           /\ first.ink
                => /\ pulls = 1
                   /\ last.in.pull_ok => last.calls = <<try, "pull", try>>
                   /\ ~last.in.pull_ok
                        => /\ last.calls = <<try, "pull">>
                           /\ last.ret.result = "CommandExecutionError"
                   /\ (last.in.pull_ok /\ second.cls # "")
                        => last.ret.result = "CommandExecutionError"
                   /\ (last.in.pull_ok /\ second.cls = "")
                        => last.ret.result = "True"
           /\ (first.cls # "" /\ ~first.ink)
                => /\ last.calls = <<try>>
                   /\ last.ret.result = "CommandExecutionError"

\* podman.create pulled an unknown image, and the retried attempt failed
\* as "image not known" again
C15_Witness ==
    /\ C15_Called
    /\ last.op = "create"
    /\ ~last.in.known
    /\ last.in.errs[2].ink
    /\ last.calls = <<"create", "pull", "create">>
    /\ last.ret.result = "CommandExecutionError"

\* C16: 'systemctl status' is executed at most once per (unit name, user)
\* until a daemon reload: a _systemctl_status call executes the command
\* exactly when no output of the status command for its unit and user is
\* cached, and returns the output for its unit and user; a successful
\* systemctl_reload leaves no 'compose._systemctl_status.*' entry; the
\* keys of (unit, None) and (unit, U) differ.
C16_StatusCachedPerKey ==
    /\ (last.op = "systemctl_status" /\ last.ret.result = "True")
        => /\ last.val.own <=> last.calls = <<>>
           /\ last.val.status.unit = last.in.name
           /\ last.val.status.user = last.in.user
    /\ (last.op = "systemctl_reload" /\ last.ret.result = "True")
        => \A k \in DOMAIN context : k.prefix # StatusPrefix
    /\ \A name \in Units, U \in StatusUsers \ {NoneV} :
          contextkey(name, NoneV) # contextkey(name, U)

====
